---- MODULE Spec2Model ----
(***************************************************************************)
(* p2d: a 2D rigid-body physics engine (wasm) driven by a canvas demo.     *)
(*                                                                         *)
(* Sources modelled:                                                       *)
(*   src/unnamed/part_000  the demo (main.js): world construction,         *)
(*                         addBorder, renderLoop, the mousedown listener   *)
(*   src/unnamed/part_001  the design notes: AABBvsAABB, resolveCollision, *)
(*                         Body / MassData / Material, Forces, Broad Phase,*)
(*                         Layering                                        *)
(* The engine's compiled code (the "p2d" wasm package imported at          *)
(* part_000:2) is not among the sources; the parts of World.step that the  *)
(* design notes do not give (integration, narrow phase, make_static, the   *)
(* shape accessors) follow spec.md.                                        *)
(*                                                                         *)
(* Numbers.  An f32 is modelled bit for bit: a value is <<sign, m, e>>,     *)
(* finite values are sign * m * 2^e with a significand of at most 24 bits  *)
(* and an exponent in the binary32 range (subnormals included); there are  *)
(* two zeros, two infinities and one NaN.  +, -, *, / and the square root  *)
(* are correctly rounded (to nearest, ties to even), overflow to an        *)
(* infinity and follow IEEE 754 on the special values: x/0 = inf,          *)
(* inf*0 = NaN, inf-inf = NaN, every comparison with NaN is false.         *)
(***************************************************************************)
EXTENDS Integers, Sequences, FiniteSets, TLC

VARIABLES
    bodies,       \* World: the sequence of bodies, in insertion order
    pairs,        \* output of the broad phase of the current step
    collisions,   \* output of the narrow phase of the current step
    pc,           \* position of the running callback ("idle": none running)
    rafPending,   \* a renderLoop call is scheduled (requestAnimationFrame)
    listening,    \* the mousedown listener is registered (part_000:48)
    frame,        \* number of world.step() calls begun
    phaseLog,     \* history: the phases run so far, over all steps
    stepBodies,   \* history: Len(bodies) when the current step began
    iterated,     \* history: number of bodies the last broad phase scanned
    resolved,     \* history: the pairs the resolver was invoked on, this step
    prevEnd,      \* history: bodies as they were when the last step ended
    drawn,        \* history: accessor results of the last render pass
    args,         \* input of a function under test (function specifications)
    ret           \* its result

vars == <<bodies, pairs, collisions, pc, rafPending, listening, frame, phaseLog,
          stepBodies, iterated, resolved, prevEnd, drawn, args, ret>>

----------------------------------------------------------------------------
(* Bounds of the model *)

MaxFrames == 4      \* renderLoop runs at most this many frames
MaxBodies == 4      \* the world holds at most this many bodies
MaxSpeed == 3       \* resolveCollision inputs: |velocity.x| <= MaxSpeed
MaxN == 3           \* findPairs inputs: at most this many bodies

----------------------------------------------------------------------------
(* f32: IEEE 754 binary32, round to nearest, ties to even *)

\* A value is <<sign, m, e>>: sign 0 (+) or 1 (-), and for a finite value the
\* magnitude m * 2^e with m odd, or m = 0 and e = 0 for a zero.  A special
\* value has e = Special: m = 1 an infinity, m = 0 the NaN.
\* The operations are functions, so that an operand is evaluated once.
Special == 999

MantBits == 24      \* bits of a significand
MinExp == -149      \* the smallest subnormal is 2^MinExp
MaxExp == 128       \* every finite value is below 2^MaxExp

Bit == {0, 1}

F32 == Bit \X Nat \X Int

Zero == <<0, 0, 0>>
One == <<0, 1, 0>>
NaN == <<0, 0, Special>>

Inf(s) == <<s, 1, Special>>

IsNaN(x) == x[3] = Special /\ x[2] = 0

IsInf(x) == x[3] = Special /\ x[2] = 1

IsZero(x) == x[3] # Special /\ x[2] = 0

Xor(s, t) == IF s = t THEN 0 ELSE 1

BitLen[n \in Nat] == IF n = 0 THEN 0 ELSE 1 + BitLen[n \div 2]

\* the finite value m * 2^e in its one representation
Strip[s \in Bit, m \in Nat, e \in Int] ==
    IF m = 0 THEN <<s, 0, 0>>
    ELSE IF m % 2 = 0 THEN Strip[s, m \div 2, e + 1]
    ELSE <<s, m, e>>

\* m * 2^e as an f32, or an infinity if it is too large for one
Pack[s \in Bit, m \in Nat, e \in Int] ==
    IF BitLen[m] + e > MaxExp THEN Inf(s) ELSE Strip[s, m, e]

\* (m + f) * 2^e with the last drop bits of m rounded away
Shift[s \in Bit, m \in Nat, e \in Int, sticky \in BOOLEAN, drop \in Int] ==
    IF drop <= 0 THEN Pack[s, m, e]
    ELSE IF drop > 30 THEN <<s, 0, 0>>
    ELSE LET q == m \div (2 ^ drop)
             r == m % (2 ^ drop)
             half == 2 ^ (drop - 1)
             up == r > half \/ (r = half /\ (sticky \/ q % 2 = 1))
         IN Pack[s, IF up THEN q + 1 ELSE q, e + drop]

\* The f32 nearest to (m + f) * 2^e, for 0 <= m < 2^29 and a fraction f in
\* [0, 1) that is nonzero iff sticky; a sticky m has more than MantBits bits.
Round[s \in Bit, m \in Nat, e \in Int, sticky \in BOOLEAN] ==
    Shift[s, m, e, sticky,
          IF BitLen[m] - MantBits > MinExp - e THEN BitLen[m] - MantBits
          ELSE MinExp - e]

\* an integer (below 2^29 in magnitude) as an f32
FromInt(n) == IF n < 0 THEN Round[1, -n, 0, FALSE] ELSE Round[0, n, 0, FALSE]

Neg[x \in F32] == IF IsNaN(x) THEN NaN ELSE <<1 - x[1], x[2], x[3]>>

RNeg(x) == Neg[x]

RAbs(x) == <<0, x[2], x[3]>>

\* x + y for finite nonzero x, y with x[3] >= y[3]; len is the length of x[2]
AddAligned[x \in F32, y \in F32, len \in Nat] ==
    LET d == x[3] - y[3]
    IN IF len + d <= 28
       THEN LET sum == (IF x[1] = 1 THEN -1 ELSE 1) * x[2] * (2 ^ d)
                       + (IF y[1] = 1 THEN -1 ELSE 1) * y[2]
            IN IF sum = 0 THEN Zero
               ELSE IF sum < 0 THEN Round[1, -sum, y[3], FALSE]
               ELSE Round[0, sum, y[3], FALSE]
       ELSE LET k == 28 - len
                big == x[2] * (2 ^ k)
                sh == d - k
                small == IF sh > 30 THEN 0 ELSE y[2] \div (2 ^ sh)
            IN IF x[1] = y[1]
               THEN Round[x[1], big + small, x[3] - k, TRUE]
               ELSE Round[x[1], big - small - 1, x[3] - k, TRUE]

Add[x \in F32, y \in F32] ==
    IF IsNaN(x) \/ IsNaN(y) THEN NaN
    ELSE IF IsInf(x) THEN (IF IsInf(y) /\ x[1] # y[1] THEN NaN ELSE x)
    ELSE IF IsInf(y) THEN y
    ELSE IF IsZero(x) /\ IsZero(y) THEN (IF x[1] = 1 /\ y[1] = 1 THEN x ELSE Zero)
    ELSE IF IsZero(x) THEN y
    ELSE IF IsZero(y) THEN x
    ELSE IF x[3] >= y[3] THEN AddAligned[x, y, BitLen[x[2]]]
    ELSE AddAligned[y, x, BitLen[y[2]]]

RAdd(x, y) == Add[x, y]

RSub(x, y) == Add[x, Neg[y]]

\* hi * 2^24 + lo, for hi >= 16, with the last bits of lo made a sticky bit
MulRound[s \in Bit, hi \in Nat, lo \in Nat, e \in Int, k \in Nat] ==
    Round[s, hi * (2 ^ k) + lo \div (2 ^ (24 - k)), e + 24 - k,
          lo % (2 ^ (24 - k)) # 0]

\* the product of two significands, by halves of 12 bits
MulFinite[s \in Bit, ma \in Nat, mb \in Nat, e \in Int] ==
    IF BitLen[ma] + BitLen[mb] <= 29 THEN Round[s, ma * mb, e, FALSE]
    ELSE LET a1 == ma \div 4096
             a0 == ma % 4096
             b1 == mb \div 4096
             b0 == mb % 4096
             mid == a1 * b0 + a0 * b1
             low == (mid % 4096) * 4096 + a0 * b0
             hi == a1 * b1 + mid \div 4096 + low \div 16777216
         IN MulRound[s, hi, low % 16777216, e, 27 - BitLen[hi]]

Mul[x \in F32, y \in F32] ==
    IF IsNaN(x) \/ IsNaN(y) THEN NaN
    ELSE IF IsInf(x) \/ IsInf(y)
         THEN (IF IsZero(x) \/ IsZero(y) THEN NaN ELSE Inf(Xor(x[1], y[1])))
    ELSE IF IsZero(x) \/ IsZero(y) THEN <<Xor(x[1], y[1]), 0, 0>>
    ELSE MulFinite[Xor(x[1], y[1]), x[2], y[2], x[3] + y[3]]

RMul(x, y) == Mul[x, y]

\* long division: (q + r / d) * 2^e, a quotient bit at a time until q has 27
\* bits or the remainder r is 0
DivLoop[s \in Bit, q \in Nat, r \in Nat, d \in Nat, e \in Int] ==
    IF r = 0 \/ q >= 67108864 THEN Round[s, q, e, r # 0]
    ELSE IF 2 * r >= d THEN DivLoop[s, 2 * q + 1, 2 * r - d, d, e - 1]
    ELSE DivLoop[s, 2 * q, 2 * r, d, e - 1]

Div[x \in F32, y \in F32] ==
    IF IsNaN(x) \/ IsNaN(y) THEN NaN
    ELSE IF IsInf(x) THEN (IF IsInf(y) THEN NaN ELSE Inf(Xor(x[1], y[1])))
    ELSE IF IsInf(y) THEN <<Xor(x[1], y[1]), 0, 0>>
    ELSE IF IsZero(y) THEN (IF IsZero(x) THEN NaN ELSE Inf(Xor(x[1], y[1])))
    ELSE IF IsZero(x) THEN <<Xor(x[1], y[1]), 0, 0>>
    ELSE DivLoop[Xor(x[1], y[1]), x[2] \div y[2], x[2] % y[2], y[2], x[3] - y[3]]

RDiv(x, y) == Div[x, y]

\* the quotient n / d of two integers, as the f32 division gives it
R(n, d) == Div[FromInt(n), FromInt(d)]

\* |x| < |y| for finite nonzero x and y; tx, ty: the positions of their top bits
MagLessFinite[x \in F32, y \in F32, tx \in Int, ty \in Int] ==
    IF tx # ty THEN tx < ty
    ELSE IF x[3] >= y[3] THEN x[2] * (2 ^ (x[3] - y[3])) < y[2]
    ELSE x[2] < y[2] * (2 ^ (y[3] - x[3]))

\* |x| < |y| for x, y not NaN
MagLess[x \in F32, y \in F32] ==
    IF IsInf(x) THEN FALSE
    ELSE IF IsInf(y) THEN TRUE
    ELSE IF y[2] = 0 THEN FALSE
    ELSE IF x[2] = 0 THEN TRUE
    ELSE MagLessFinite[x, y, BitLen[x[2]] + x[3], BitLen[y[2]] + y[3]]

Eq[x \in F32, y \in F32] ==
    ~IsNaN(x) /\ ~IsNaN(y) /\ (x = y \/ (IsZero(x) /\ IsZero(y)))

REq(x, y) == Eq[x, y]

Lt[x \in F32, y \in F32] ==
    /\ ~IsNaN(x)
    /\ ~IsNaN(y)
    /\ ~(IsZero(x) /\ IsZero(y))
    /\ IF x[1] # y[1] THEN x[1] = 1
       ELSE IF x[1] = 0 THEN MagLess[x, y]
       ELSE MagLess[y, x]

RLt(x, y) == Lt[x, y]

RGt(x, y) == Lt[y, x]

RLe(x, y) == Lt[x, y] \/ Eq[x, y]

Min[x \in F32, y \in F32] ==
    IF IsNaN(x) THEN y ELSE IF IsNaN(y) THEN x ELSE IF Lt[y, x] THEN y ELSE x

RMin(x, y) == Min[x, y]

Max[x \in F32, y \in F32] ==
    IF IsNaN(x) THEN y ELSE IF IsNaN(y) THEN x ELSE IF Lt[x, y] THEN y ELSE x

RMax(x, y) == Max[x, y]

\* Newton's iteration for the integer square root
SqrtIter[n \in Nat, x \in Nat] ==
    IF (x + n \div x) \div 2 >= x THEN x ELSE SqrtIter[n, (x + n \div x) \div 2]

ISqrt[n \in Nat] == IF n < 2 THEN n ELSE SqrtIter[n, n]

\* square root digit by digit: sqrt(root^2 + rem) * 2^e, a root bit at a time
\* until root has 27 bits or the remainder is 0
SqrtLoop[root \in Nat, rem \in Nat, e \in Int] ==
    IF rem = 0 \/ root >= 67108864 THEN Round[0, root, e, rem # 0]
    ELSE IF 4 * rem >= 4 * root + 1
         THEN SqrtLoop[2 * root + 1, 4 * rem - (4 * root + 1), e - 1]
         ELSE SqrtLoop[2 * root, 4 * rem, e - 1]

\* sqrt(m) * 2^e, with root the integer square root of m
SqrtFrom[m \in Nat, root \in Nat, e \in Int] == SqrtLoop[root, m - root * root, e]

Sqrt[x \in F32] ==
    IF IsNaN(x) THEN NaN
    ELSE IF IsZero(x) THEN x
    ELSE IF x[1] = 1 THEN NaN
    ELSE IF IsInf(x) THEN x
    ELSE IF x[3] % 2 = 0 THEN SqrtFrom[x[2], ISqrt[x[2]], x[3] \div 2]
    ELSE SqrtFrom[2 * x[2], ISqrt[2 * x[2]], (x[3] - 1) \div 2]

RSqrt(x) == Sqrt[x]

----------------------------------------------------------------------------
(* Vec2 *)

Vec2(x, y) == [x |-> x, y |-> y]

V(x, y) == Vec2(FromInt(x), FromInt(y))

VZero == Vec2(Zero, Zero)

Vec == [x : F32, y : F32]

Plus[u \in Vec, v \in Vec] == Vec2(Add[u.x, v.x], Add[u.y, v.y])

VAdd(u, v) == Plus[u, v]

Minus[u \in Vec, v \in Vec] == Vec2(Add[u.x, Neg[v.x]], Add[u.y, Neg[v.y]])

VSub(u, v) == Minus[u, v]

Scale[s \in F32, v \in Vec] == Vec2(Mul[s, v.x], Mul[s, v.y])

VScale(s, v) == Scale[s, v]

Dot[u \in Vec, v \in Vec] == Add[Mul[u.x, v.x], Mul[u.y, v.y]]

VDot(u, v) == Dot[u, v]

VNeg(v) == Vec2(Neg[v.x], Neg[v.y])

VEq(u, v) == Eq[u.x, v.x] /\ Eq[u.y, v.y]

----------------------------------------------------------------------------
(* Program constants *)

CanvasWidth == 480
CanvasHeight == 800
Gravity == 400
BallRadius == 30
BoxSize == 60
bottomHeight == 20
DefaultLayer == 1

\* World.new(1 / 60, 400, 4.0): the fixed timestep
dt == R(1, 60)

\* pi as an f32, 3.1415927 (mass = density * volume needs the area of a disc)
Pi == <<0, 13176795, -22>>

----------------------------------------------------------------------------
(* Shape, Material, MassData, Body *)

Circle(radius) == [type |-> "Circle", radius |-> radius]

AABB(min, max) == [type |-> "AABB", min |-> min, max |-> max]

\* the area of a shape
volume(shape) ==
    IF shape.type = "Circle"
    THEN RMul(Pi, RMul(shape.radius, shape.radius))
    ELSE RMul(RSub(shape.max.x, shape.min.x), RSub(shape.max.y, shape.min.y))

\* inv_mass of a mass: 0 for a massless (static) body, 1/mass otherwise
InvMass(mass) == IF REq(mass, Zero) THEN Zero ELSE RDiv(One, mass)

Body(shape, position, density, restitution, layer) ==
    LET mass == RMul(density, volume(shape))
    IN [shape |-> shape, position |-> position, velocity |-> VZero,
        force |-> VZero, density |-> density, restitution |-> restitution,
        mass |-> mass, inv_mass |-> InvMass(mass), layer |-> layer,
        is_static |-> FALSE]

make_static(body) ==
    [body EXCEPT !.density = Zero, !.mass = Zero, !.inv_mass = Zero,
                 !.is_static = TRUE]

\* The box a body covers in world coordinates: position +- radius for a
\* circle, position -+ max/2 for an AABB (shape.min is not used).  These are
\* the corners renderLoop computes for an AABB body (part_000:39-40); what it
\* then paints is another matter, since renderAABB hands the two corners to
\* fillRect as x, y, width and height.  The engine's own bounding box is not
\* among the sources.
Bounds(body) ==
    LET half == IF body.shape.type = "Circle"
                THEN Vec2(body.shape.radius, body.shape.radius)
                ELSE Vec2(RDiv(body.shape.max.x, FromInt(2)),
                          RDiv(body.shape.max.y, FromInt(2)))
    IN [min |-> VSub(body.position, half), max |-> VAdd(body.position, half)]

----------------------------------------------------------------------------
(* Collision detection: the AABB slab test *)

\* (the notes write "a.max < b.min.y" in the second test; a.max.y is meant)
AABBvsAABB(a, b) ==
    IF RLt(a.max.x, b.min.x) \/ RGt(a.min.x, b.max.x) THEN FALSE
    ELSE IF RLt(a.max.y, b.min.y) \/ RGt(a.min.y, b.max.y) THEN FALSE
    ELSE TRUE

----------------------------------------------------------------------------
(* Impulse resolution *)

\* mutant: the separating-contact test is dropped
resolveCollision_noskip(a, b, normal) ==
    LET rv == VSub(b.velocity, a.velocity)
        vel_along_normal == VDot(rv, normal)
        e == RMin(a.restitution, b.restitution)
        j == RDiv(RMul(RNeg(RAdd(One, e)), vel_along_normal),
                  RAdd(RDiv(One, a.mass), RDiv(One, b.mass)))
        impulse == VScale(j, normal)
    IN <<[a EXCEPT !.velocity = VSub(@, VScale(RDiv(One, a.mass), impulse))],
         [b EXCEPT !.velocity = VAdd(@, VScale(RDiv(One, b.mass), impulse))]>>

\* mutant: the restitution of the pair is the larger one
resolveCollision_max(a, b, normal) ==
    LET rv == VSub(b.velocity, a.velocity)
        vel_along_normal == VDot(rv, normal)
    IN IF RGt(vel_along_normal, Zero) THEN <<a, b>>
       ELSE LET e == RMax(a.restitution, b.restitution)
                j == RDiv(RMul(RNeg(RAdd(One, e)), vel_along_normal),
                          RAdd(RDiv(One, a.mass), RDiv(One, b.mass)))
                impulse == VScale(j, normal)
            IN <<[a EXCEPT !.velocity = VSub(@, VScale(RDiv(One, a.mass), impulse))],
                 [b EXCEPT !.velocity = VAdd(@, VScale(RDiv(One, b.mass), impulse))]>>

resolveCollision(a, b, normal) ==
    LET rv == VSub(b.velocity, a.velocity)
        vel_along_normal == VDot(rv, normal)
    IN IF RGt(vel_along_normal, Zero) THEN <<a, b>>
       ELSE LET e == RMin(a.restitution, b.restitution)
                j == RDiv(RMul(RNeg(RAdd(One, e)), vel_along_normal),
                          RAdd(RDiv(One, a.mass), RDiv(One, b.mass)))
                impulse == VScale(j, normal)
            IN <<[a EXCEPT !.velocity = VSub(@, VScale(RDiv(One, a.mass), impulse))],
                 [b EXCEPT !.velocity = VAdd(@, VScale(RDiv(One, b.mass), impulse))]>>

----------------------------------------------------------------------------
(* Broad phase *)

RECURSIVE BitAnd(_, _)
BitAnd(m, n) ==
    IF m = 0 \/ n = 0 THEN 0
    ELSE (m % 2) * (n % 2) + 2 * BitAnd(m \div 2, n \div 2)

\* Layering: two bodies may collide only if their bitmasks share a bit
LayersShare(a, b) == BitAnd(a.layer, b.layer) # 0

Pair(i, j) == [a |-> i, b |-> j]

\* mutant: layering is left out of the broad phase
MayCollide_nolayer(a, b) == AABBvsAABB(Bounds(a), Bounds(b))

\* a pair is emitted if the layers share a bit and the bounding boxes overlap
MayCollide(a, b) == LayersShare(a, b) /\ AABBvsAABB(Bounds(a), Bounds(b))

RECURSIVE PairsFrom(_, _, _)
PairsFrom(bs, i, j) ==
    IF i >= Len(bs) THEN <<>>
    ELSE IF j > Len(bs) THEN PairsFrom(bs, i + 1, i + 2)
    ELSE (IF MayCollide(bs[i], bs[j]) THEN <<Pair(i, j)>> ELSE <<>>)
         \o PairsFrom(bs, i, j + 1)

\* mutant: every ordered pair of indices is tested, duplicates not removed
RECURSIVE PairsFrom_all(_, _, _)
PairsFrom_all(bs, i, j) ==
    IF i > Len(bs) THEN <<>>
    ELSE IF j > Len(bs) THEN PairsFrom_all(bs, i + 1, 1)
    ELSE (IF MayCollide(bs[i], bs[j]) THEN <<Pair(i, j)>> ELSE <<>>)
         \o PairsFrom_all(bs, i, j + 1)

findPairs_all(bs) == PairsFrom_all(bs, 1, 1)

findPairs(bs) == PairsFrom(bs, 1, 2)

----------------------------------------------------------------------------
(* Narrow phase *)

Length(v) == RSqrt(VDot(v, v))

NoCollision == [hit |-> FALSE]

Collision(normal, penetration) ==
    [hit |-> TRUE, normal |-> normal, penetration |-> penetration]

\* Circle-Circle: collision iff distance < radiusA + radiusB
CirclevsCircle(a, b) ==
    LET n == VSub(b.position, a.position)
        d == Length(n)
        r == RAdd(a.shape.radius, b.shape.radius)
    IN IF ~RLt(d, r) THEN NoCollision
       ELSE IF REq(d, Zero) THEN Collision(V(1, 0), r)
       ELSE Collision(VScale(RDiv(One, d), n), RSub(r, d))

\* AABB-AABB: the slab test, then the axis of least overlap.  A circle met
\* by a box is tested by its bounding box.
BoxvsBox(a, b) ==
    LET A == Bounds(a)
        B == Bounds(b)
        n == VSub(b.position, a.position)
        x_overlap == RSub(RMin(A.max.x, B.max.x), RMax(A.min.x, B.min.x))
        y_overlap == RSub(RMin(A.max.y, B.max.y), RMax(A.min.y, B.min.y))
    IN IF ~AABBvsAABB(A, B) THEN NoCollision
       ELSE IF RLt(x_overlap, y_overlap)
            THEN Collision(IF RLt(n.x, Zero) THEN V(-1, 0) ELSE V(1, 0), x_overlap)
            ELSE Collision(IF RLt(n.y, Zero) THEN V(0, -1) ELSE V(0, 1), y_overlap)

test(a, b) ==
    IF a.shape.type = "Circle" /\ b.shape.type = "Circle"
    THEN CirclevsCircle(a, b)
    ELSE BoxvsBox(a, b)

RECURSIVE NarrowFrom(_, _, _)
NarrowFrom(bs, ps, k) ==
    IF k > Len(ps) THEN <<>>
    ELSE LET c == test(bs[ps[k].a], bs[ps[k].b])
         IN (IF c.hit
             THEN <<[a |-> ps[k].a, b |-> ps[k].b, normal |-> c.normal,
                     penetration |-> c.penetration]>>
             ELSE <<>>) \o NarrowFrom(bs, ps, k + 1)

----------------------------------------------------------------------------
(* Resolver: the impulse of resolveCollision, for every collision in turn.   *)
(* The design notes give no positional correction (spec.md 4.3 proposes    *)
(* one to implementers); none is modelled.                                *)

resolve(bs, c) ==
    LET r == resolveCollision(bs[c.a], bs[c.b], c.normal)
    IN [bs EXCEPT ![c.a] = r[1], ![c.b] = r[2]]

RECURSIVE ResolveFrom(_, _, _)
ResolveFrom(bs, cs, k) ==
    IF k > Len(cs) THEN bs ELSE ResolveFrom(resolve(bs, cs[k]), cs, k + 1)

\* what the resolver was invoked on: the pair and its mass data at the call
RECURSIVE InvokedFrom(_, _, _)
InvokedFrom(bs, cs, k) ==
    IF k > Len(cs) THEN <<>>
    ELSE <<[a |-> cs[k].a, b |-> cs[k].b,
            a_mass |-> bs[cs[k].a].mass, b_mass |-> bs[cs[k].b].mass,
            a_inv_mass |-> bs[cs[k].a].inv_mass,
            b_inv_mass |-> bs[cs[k].b].inv_mass]>>
         \o InvokedFrom(resolve(bs, cs[k]), cs, k + 1)

----------------------------------------------------------------------------
(* Integration *)

IntegrateBody(b) ==
    IF REq(b.inv_mass, Zero) THEN b
    ELSE LET force == VAdd(b.force, Vec2(Zero, RMul(FromInt(Gravity), b.mass)))
             velocity == VAdd(b.velocity, VScale(RMul(b.inv_mass, dt), force))
         IN [b EXCEPT !.force = force, !.velocity = velocity,
                      !.position = VAdd(@, VScale(dt, velocity))]

----------------------------------------------------------------------------
(* The engine's API, as the demo calls it *)

\* restitution of a body made by the factories, which take none
DefaultRestitution == R(1, 2)

new_circle(radius, position, density) ==
    Body(Circle(radius), position, density, DefaultRestitution, DefaultLayer)

new_aabb(min, max, position, density) ==
    Body(AABB(min, max), position, density, DefaultRestitution, DefaultLayer)

add_body(bs, body) == Append(bs, body)

get_shape_type(body) == body.shape.type

VariantMismatch == [ok |-> FALSE, error |-> "variant mismatch"]

get_circle(body) ==
    IF body.shape.type = "Circle"
    THEN [ok |-> TRUE, radius |-> body.shape.radius]
    ELSE VariantMismatch

get_aabb(body) ==
    IF body.shape.type = "AABB"
    THEN [ok |-> TRUE, min |-> body.shape.min, max |-> body.shape.max]
    ELSE VariantMismatch

----------------------------------------------------------------------------
(* The demo: main() *)

GroundPosition ==
    Vec2(R(CanvasWidth, 2), RSub(FromInt(CanvasHeight), R(bottomHeight, 2)))

\* addBorder(): the ground, made static before it is added
Ground ==
    make_static(new_aabb(V(0, 0), V(CanvasWidth, bottomHeight), GroundPosition, R(1, 2)))

\* e.button of a mousedown: 0 left, 1 middle, 2 right
Buttons == {0, 1, 2}

\* where the canvas is clicked (e.clientX - rect.left, e.clientY - rect.top).
\* The clicks are in one column, so every contact is along the y axis and all
\* the bodies stay in that column.
ClickPositions == {V(100, 760), V(100, 720)}

InStep == {"integrate", "broad", "narrow", "resolve", "clear"}

Init ==
    /\ bodies = add_body(<<>>, Ground)
    /\ pairs = <<>>
    /\ collisions = <<>>
    /\ pc = "idle"
    /\ rafPending = TRUE
    /\ listening = FALSE
    /\ frame = 0
    /\ phaseLog = <<>>
    /\ stepBodies = 0
    /\ iterated = 0
    /\ resolved = <<>>
    /\ prevEnd = <<Ground>>
    /\ drawn = <<>>
    /\ args = <<>>
    /\ ret = <<>>

\* mutant: the frame callback may run while a step is in progress
renderLoop_begin_reentrant ==
    /\ pc \in InStep \cup {"idle"}
    /\ frame < MaxFrames
    /\ pc' = "integrate"
    /\ rafPending' = FALSE
    /\ frame' = frame + 1
    /\ stepBodies' = Len(bodies)
    /\ resolved' = <<>>
    /\ UNCHANGED <<bodies, pairs, collisions, listening, phaseLog, iterated,
                   prevEnd, drawn, args, ret>>

\* renderLoop, up to the call of world.step()
renderLoop_begin ==
    /\ pc = "idle"
    /\ rafPending
    /\ frame < MaxFrames
    /\ pc' = "integrate"
    /\ rafPending' = FALSE
    /\ frame' = frame + 1
    /\ stepBodies' = Len(bodies)
    /\ resolved' = <<>>
    /\ UNCHANGED <<bodies, pairs, collisions, listening, phaseLog, iterated,
                   prevEnd, drawn, args, ret>>

Integrate ==
    /\ pc = "integrate"
    /\ bodies' = [i \in 1..Len(bodies) |-> IntegrateBody(bodies[i])]
    /\ phaseLog' = Append(phaseLog, "Integrate")
    /\ pc' = "broad"
    /\ UNCHANGED <<pairs, collisions, rafPending, listening, frame, stepBodies,
                   iterated, resolved, prevEnd, drawn, args, ret>>

BroadPhase ==
    /\ pc = "broad"
    /\ pairs' = findPairs(bodies)
    /\ iterated' = Len(bodies)
    /\ phaseLog' = Append(phaseLog, "BroadPhase")
    /\ pc' = "narrow"
    /\ UNCHANGED <<bodies, collisions, rafPending, listening, frame, stepBodies,
                   resolved, prevEnd, drawn, args, ret>>

NarrowPhase ==
    /\ pc = "narrow"
    /\ collisions' = NarrowFrom(bodies, pairs, 1)
    /\ phaseLog' = Append(phaseLog, "NarrowPhase")
    /\ pc' = "resolve"
    /\ UNCHANGED <<bodies, pairs, rafPending, listening, frame, stepBodies,
                   iterated, resolved, prevEnd, drawn, args, ret>>

Resolve ==
    /\ pc = "resolve"
    /\ bodies' = ResolveFrom(bodies, collisions, 1)
    /\ resolved' = InvokedFrom(bodies, collisions, 1)
    /\ phaseLog' = Append(phaseLog, "Resolve")
    /\ pc' = "clear"
    /\ UNCHANGED <<pairs, collisions, rafPending, listening, frame, stepBodies,
                   iterated, prevEnd, drawn, args, ret>>

\* mutant: the forces are kept over the step boundary
ClearForces_keep ==
    /\ pc = "clear"
    /\ bodies' = bodies
    /\ prevEnd' = bodies'
    /\ phaseLog' = Append(phaseLog, "ClearForces")
    /\ pc' = "render"
    /\ UNCHANGED <<pairs, collisions, rafPending, listening, frame, stepBodies,
                   iterated, resolved, drawn, args, ret>>

ClearForces ==
    /\ pc = "clear"
    /\ bodies' = [i \in 1..Len(bodies) |-> [bodies[i] EXCEPT !.force = VZero]]
    /\ prevEnd' = bodies'
    /\ phaseLog' = Append(phaseLog, "ClearForces")
    /\ pc' = "render"
    /\ UNCHANGED <<pairs, collisions, rafPending, listening, frame, stepBodies,
                   iterated, resolved, drawn, args, ret>>

\* mutant: every body is drawn as a ball
DrawBody_allCircles(body) == get_circle(body)

\* what the loop body of renderLoop reads of one body
DrawBody(body) ==
    IF get_shape_type(body) = "Circle" THEN get_circle(body)
    ELSE IF get_shape_type(body) = "AABB" THEN get_aabb(body)
    ELSE [ok |-> TRUE]

\* renderLoop after world.step() returned: draw every body of get_bodies(),
\* then requestAnimationFrame(renderLoop).  When the first call returns,
\* main() registers the mousedown listener.
renderLoop_draw ==
    /\ pc = "render"
    /\ drawn' = [i \in 1..Len(bodies) |-> DrawBody(bodies[i])]
    /\ rafPending' = TRUE
    /\ listening' = TRUE
    /\ pc' = "idle"
    /\ UNCHANGED <<bodies, pairs, collisions, frame, phaseLog, stepBodies,
                   iterated, resolved, prevEnd, args, ret>>

\* the body a mousedown adds: a ball on the left button, a box on the right
ClickedBody(button, position) ==
    IF button = 0 THEN new_circle(FromInt(BallRadius), position, One)
    ELSE new_aabb(V(0, 0), V(BoxSize, BoxSize), position, One)

\* mutant: the listener runs in the middle of a step
mousedown_midstep(button, position) ==
    /\ listening
    /\ IF button \in {0, 2}
       THEN /\ Len(bodies) < MaxBodies
            /\ bodies' = add_body(bodies, ClickedBody(button, position))
       ELSE bodies' = bodies
    /\ UNCHANGED <<pairs, collisions, pc, rafPending, listening, frame, phaseLog,
                   stepBodies, iterated, resolved, prevEnd, drawn, args, ret>>

\* The mousedown listener.  A callback runs only when no other is running.
mousedown(button, position) ==
    /\ pc = "idle"
    /\ listening
    /\ IF button \in {0, 2}
       THEN /\ Len(bodies) < MaxBodies
            /\ bodies' = add_body(bodies, ClickedBody(button, position))
       ELSE bodies' = bodies
    /\ UNCHANGED <<pairs, collisions, pc, rafPending, listening, frame, phaseLog,
                   stepBodies, iterated, resolved, prevEnd, drawn, args, ret>>

MouseEvent ==
    \E button \in Buttons, position \in ClickPositions : mousedown(button, position)

Next ==
    \/ renderLoop_begin
    \/ Integrate
    \/ BroadPhase
    \/ NarrowPhase
    \/ Resolve
    \/ ClearForces
    \/ renderLoop_draw
    \/ MouseEvent

Spec == Init /\ [][Next]_vars

----------------------------------------------------------------------------
(* The engine under any client: the world starts empty (P2DWorld.new), and *)
(* between two steps the client may add a box, static or not.  The frame   *)
(* loop is the demo's.                                                     *)

ApiBodies ==
    LET made == {new_aabb(V(0, 0), V(BoxSize, BoxSize), position, One) :
                    position \in ClickPositions}
    IN made \cup {make_static(b) : b \in made}

InitWorld ==
    /\ bodies = <<>>
    /\ pairs = <<>>
    /\ collisions = <<>>
    /\ pc = "idle"
    /\ rafPending = TRUE
    /\ listening = FALSE
    /\ frame = 0
    /\ phaseLog = <<>>
    /\ stepBodies = 0
    /\ iterated = 0
    /\ resolved = <<>>
    /\ prevEnd = <<>>
    /\ drawn = <<>>
    /\ args = <<>>
    /\ ret = <<>>

ClientAddBody ==
    \E body \in ApiBodies :
        /\ pc = "idle"
        /\ Len(bodies) < MaxBodies
        /\ bodies' = add_body(bodies, body)
        /\ UNCHANGED <<pairs, collisions, pc, rafPending, listening, frame,
                       phaseLog, stepBodies, iterated, resolved, prevEnd, drawn,
                       args, ret>>

NextWorld ==
    \/ renderLoop_begin
    \/ Integrate
    \/ BroadPhase
    \/ NarrowPhase
    \/ Resolve
    \/ ClearForces
    \/ renderLoop_draw
    \/ ClientAddBody

SpecWorld == InitWorld /\ [][NextWorld]_vars

----------------------------------------------------------------------------
(* Specification of resolveCollision alone: the inputs are drawn from      *)
(* bounded sets, the one action applies the function.                      *)

\* 1 / 7 is not an f32, so a mass of 7 brings rounding into the impulse
Masses == {0, 1, 3, 7}

Restitutions == {Zero, R(1, 2), One}

Normals == {V(1, 0), V(-1, 0), V(0, 1), Vec2(R(3, 5), R(4, 5))}

Object(velocity, mass, restitution) ==
    [Body(Circle(FromInt(BallRadius)), VZero, One, restitution, DefaultLayer)
        EXCEPT !.velocity = velocity, !.mass = mass, !.inv_mass = InvMass(mass),
               !.is_static = REq(mass, Zero)]

Objects ==
    {Object(V(vx, vy), FromInt(m), e) :
        vx \in -MaxSpeed..MaxSpeed, vy \in {0, 1}, m \in Masses, e \in Restitutions}

\* the variables of the demo, which the function specifications leave alone
DemoUnused ==
    /\ bodies = <<>>
    /\ pairs = <<>>
    /\ collisions = <<>>
    /\ rafPending = FALSE
    /\ listening = FALSE
    /\ frame = 0
    /\ phaseLog = <<>>
    /\ stepBodies = 0
    /\ iterated = 0
    /\ resolved = <<>>
    /\ prevEnd = <<>>
    /\ drawn = <<>>

demoVars == <<bodies, pairs, collisions, rafPending, listening, frame, phaseLog,
              stepBodies, iterated, resolved, prevEnd, drawn>>

InitResolve ==
    /\ DemoUnused
    /\ pc = "call"
    /\ args \in [a : Objects, b : Objects, normal : Normals]
    /\ ret = <<>>

CallResolve ==
    /\ pc = "call"
    /\ ret' = resolveCollision(args.a, args.b, args.normal)
    /\ pc' = "returned"
    /\ UNCHANGED <<args, demoVars>>

NextResolve == CallResolve

SpecResolve == InitResolve /\ [][NextResolve]_vars

----------------------------------------------------------------------------
(* Specification of the broad phase alone *)

Layers == {1, 2, 3}

BroadPositions == {V(100, 100), V(150, 100), V(300, 100)}

BroadShapes == {Circle(FromInt(BallRadius)), AABB(V(0, 0), V(BoxSize, BoxSize))}

BroadBodies ==
    {Body(sh, p, One, R(1, 5), l) : sh \in BroadShapes, p \in BroadPositions, l \in Layers}

InitBroad ==
    /\ DemoUnused
    /\ pc = "call"
    /\ \E n \in 1..MaxN : args \in [1..n -> BroadBodies]
    /\ ret = <<>>

CallFindPairs ==
    /\ pc = "call"
    /\ ret' = findPairs(args)
    /\ pc' = "returned"
    /\ UNCHANGED <<args, demoVars>>

NextBroad == CallFindPairs

SpecBroad == InitBroad /\ [][NextBroad]_vars

----------------------------------------------------------------------------
(* Claims about resolveCollision *)

RelVelAlongNormal == VDot(VSub(args.b.velocity, args.a.velocity), args.normal)

\* C6: if (b.velocity - a.velocity) . normal > 0 when resolve is called,
\* resolve leaves both bodies' velocities unchanged.
C6_SeparatingSkip ==
    (pc = "returned" /\ RGt(RelVelAlongNormal, Zero)) =>
        /\ ret[1].velocity = args.a.velocity
        /\ ret[2].velocity = args.b.velocity

C6_Witness ==
    /\ pc = "returned"
    /\ RGt(RelVelAlongNormal, Zero)
    /\ args.a.mass = One
    /\ args.b.mass = FromInt(3)
    /\ ret[1].velocity = args.a.velocity
    /\ ret[2].velocity = args.b.velocity

\* a and b are dynamic, of equal mass, and move along the normal towards each
\* other with the same speed v > 0: a.velocity = v * normal, b.velocity = -v * normal
HeadOn ==
    /\ REq(args.a.mass, args.b.mass)
    /\ ~REq(args.a.mass, Zero)
    /\ REq(VDot(args.normal, args.normal), One)
    /\ RGt(VDot(args.a.velocity, args.normal), Zero)
    /\ VEq(args.a.velocity, VScale(VDot(args.a.velocity, args.normal), args.normal))
    /\ VEq(args.b.velocity, VNeg(args.a.velocity))

PairRestitution == RMin(args.a.restitution, args.b.restitution)

\* the speed v of a head-on collision
Speed == VDot(args.a.velocity, args.normal)

Tolerance == R(1, 100000)

\* x and y differ by at most Tolerance * v
Near(x, y) == RLe(RAbs(RSub(x, y)), RMul(Tolerance, Speed))

VNear(u, v) == Near(u.x, v.x) /\ Near(u.y, v.y)

\* C9, as stated: head-on collision of two equal-mass dynamic bodies with
\* opposite speeds v along the normal: with e = 1 each body's velocity is
\* reversed (same speed); with e = 0 both bodies have the same velocity along
\* the normal.
C9_HeadOn ==
    (pc = "returned" /\ HeadOn) =>
        /\ REq(PairRestitution, One) =>
              /\ VEq(ret[1].velocity, VNeg(args.a.velocity))
              /\ VEq(ret[2].velocity, VNeg(args.b.velocity))
        /\ REq(PairRestitution, Zero) =>
              REq(VDot(ret[1].velocity, args.normal), VDot(ret[2].velocity, args.normal))

\* C9, amended: in such a head-on collision, with e = 1 each body's velocity
\* after resolve is its velocity reversed to within 1e-5 * v in each
\* component, and with e = 0 the two bodies' velocities along the normal
\* differ by at most 1e-5 * v (the results carry the rounding of the f32
\* operations; they need not be equal).
C9_HeadOnWithinTolerance ==
    (pc = "returned" /\ HeadOn) =>
        /\ REq(PairRestitution, One) =>
              /\ VNear(ret[1].velocity, VNeg(args.a.velocity))
              /\ VNear(ret[2].velocity, VNeg(args.b.velocity))
        /\ REq(PairRestitution, Zero) =>
              Near(VDot(ret[1].velocity, args.normal), VDot(ret[2].velocity, args.normal))

\* a bounce whose result is rounded: masses of 7, v = 3
C9_Witness ==
    /\ pc = "returned"
    /\ HeadOn
    /\ REq(PairRestitution, One)
    /\ args.a.mass = FromInt(7)
    /\ args.a.velocity = V(3, 0)
    /\ ~VEq(ret[1].velocity, V(-3, 0))
    /\ VNear(ret[1].velocity, V(-3, 0))
    /\ VNear(ret[2].velocity, V(3, 0))

----------------------------------------------------------------------------
(* Claims about the broad phase *)

\* C4: the broad phase never emits a pair (i,i) and never emits both (i,j)
\* and (j,i): every pair joins two distinct bodies and every unordered pair
\* appears at most once.
C4_NoSelfNoDuplicate ==
    pc = "returned" =>
        /\ \A k \in 1..Len(ret) : ret[k].a # ret[k].b
        /\ \A k, l \in 1..Len(ret) :
              k # l => {ret[k].a, ret[k].b} # {ret[l].a, ret[l].b}

C4_Witness ==
    /\ pc = "returned"
    /\ Len(args) = 3
    /\ Len(ret) = 3

\* C5: two bodies whose layer bitmasks share no bit never appear together in
\* an emitted pair, whether or not their bounding boxes overlap.
C5_LayerExclusion ==
    pc = "returned" =>
        \A k \in 1..Len(ret) : BitAnd(args[ret[k].a].layer, args[ret[k].b].layer) # 0

C5_Witness ==
    /\ pc = "returned"
    /\ Len(args) = 2
    /\ BitAnd(args[1].layer, args[2].layer) = 0
    /\ AABBvsAABB(Bounds(args[1]), Bounds(args[2]))
    /\ ret = <<>>

----------------------------------------------------------------------------
(* Claims about the demo: the step loop, add_body, static bodies, forces   *)

PhaseOrder == <<"Integrate", "BroadPhase", "NarrowPhase", "Resolve", "ClearForces">>

\* the number of phases of the current step that have run
PhasesDone ==
    CASE pc = "integrate" -> 0
      [] pc = "broad" -> 1
      [] pc = "narrow" -> 2
      [] pc = "resolve" -> 3
      [] pc = "clear" -> 4
      [] OTHER -> Len(PhaseOrder)

\* C1: every World.step() runs Integrate, Broad Phase, Narrow Phase, Resolve,
\* Clear Forces once each, in this order, and no step begins before the step
\* before it has finished Clear Forces.
C1_PhaseOrder ==
    /\ \A k \in 1..Len(phaseLog) :
          phaseLog[k] = PhaseOrder[((k - 1) % Len(PhaseOrder)) + 1]
    /\ Len(phaseLog) =
          IF pc \in InStep THEN Len(PhaseOrder) * (frame - 1) + PhasesDone
          ELSE Len(PhaseOrder) * frame

C1_Witness ==
    /\ pc = "idle"
    /\ frame = 2
    /\ phaseLog = PhaseOrder \o PhaseOrder

\* C2: a body passed to add_body takes effect from the next step boundary:
\* while a step is in progress the world's bodies are those it began with,
\* add_body does not change them, and the broad phase scans exactly them.
C2_StableBodies ==
    /\ pc \in InStep => Len(bodies) = stepBodies
    /\ pc \notin {"integrate", "broad"} => iterated = stepBodies
    /\ pc \in {"narrow", "resolve", "clear"} =>
          \A k \in 1..Len(pairs) : pairs[k].a <= stepBodies /\ pairs[k].b <= stepBodies

C2_Witness ==
    /\ pc = "narrow"
    /\ frame = 3
    /\ Len(prevEnd) = 2
    /\ Len(bodies) = 3
    /\ iterated = 3
    /\ \E k \in 1..Len(pairs) : pairs[k].b = 3

\* C3: a static body (inv_mass = 0, make_static was called on it) is never
\* moved: after any collision is resolved, and in any step, its velocity and
\* its position are what they were.
C3_StaticUnmoved ==
    \A i \in 1..Len(bodies) :
        bodies[i].is_static =>
            /\ VEq(bodies[i].velocity, VZero)
            /\ VEq(bodies[i].position, GroundPosition)

\* C7: in any step over any set of bodies the resolver is never invoked for
\* a pair of two static bodies, so the denominator of the impulse scalar j is
\* never zero.
C7_NeverBothStatic ==
    \A k \in 1..Len(resolved) :
        /\ ~(REq(resolved[k].a_inv_mass, Zero) /\ REq(resolved[k].b_inv_mass, Zero))
        /\ ~REq(RAdd(resolved[k].a_inv_mass, resolved[k].b_inv_mass), Zero)
        /\ ~REq(RAdd(RDiv(One, resolved[k].a_mass), RDiv(One, resolved[k].b_mass)), Zero)

\* C8: when a step has ended every body's force is zero, so the next
\* integration starts from a zero force; the velocity and position a body has
\* when a step ends are those the next step starts from.
C8_ForcesCleared ==
    /\ pc \in {"render", "idle", "integrate"} =>
          /\ \A i \in 1..Len(bodies) : bodies[i].force = VZero
          /\ Len(prevEnd) <= Len(bodies)
          /\ \A i \in 1..Len(prevEnd) :
                /\ bodies[i].velocity = prevEnd[i].velocity
                /\ bodies[i].position = prevEnd[i].position

C8_Witness ==
    /\ pc = "integrate"
    /\ frame = 3
    /\ \E i \in 1..Len(bodies) :
          /\ ~bodies[i].is_static
          /\ RGt(bodies[i].velocity.y, Zero)
          /\ bodies[i].force = VZero
          /\ bodies[i].velocity = prevEnd[i].velocity

\* C10: the accessor of the wrong variant fails and returns no data; the
\* accessor that matches get_shape_type() succeeds, so renderLoop reads the
\* shape of every body of get_bodies().
C10_Accessors ==
    /\ \A i \in 1..Len(bodies) :
          /\ get_shape_type(bodies[i]) = "Circle" =>
                get_circle(bodies[i]).ok /\ get_aabb(bodies[i]) = VariantMismatch
          /\ get_shape_type(bodies[i]) = "AABB" =>
                get_aabb(bodies[i]).ok /\ get_circle(bodies[i]) = VariantMismatch
    /\ \A i \in 1..Len(drawn) : drawn[i].ok
    /\ (pc = "idle" /\ frame > 0) => Len(drawn) = stepBodies

C10_Witness ==
    /\ pc = "idle"
    /\ Len(drawn) = 3
    /\ drawn[1] = get_aabb(Ground)
    /\ \E i \in 1..Len(drawn) : drawn[i] = [ok |-> TRUE, radius |-> FromInt(BallRadius)]

====
